---- MODULE Spec2Model ----
(***************************************************************************)
(* Native shell of the Nubo desktop application (Tauri): settings store,   *)
(* window-state persistence, deep-link routing, silent and manual update,  *)
(* single-instance relay.  Modelled from src/apps/tauri/src-tauri/src/     *)
(* lib.rs and commands.rs.                                                 *)
(***************************************************************************)
EXTENDS Integers, Sequences, FiniteSets, TLC

VARIABLES
    store,      \* key -> JSON value held by the ".nubo-settings.json" store
    calls,      \* log of the calls of the functions under study, with their
                \* arguments and what they returned or issued
    phase,      \* "launching" | "running" | "aborted" | "exited"; a killed
                \* process is a behaviour that takes no further step
    window,     \* the "main" webview window
    updater,    \* the spawned silent update task (check_and_install_update):
                \* its position, the settings it holds, and the calls it
                \* has made on the update source with what they returned
    closeTask,  \* save_window_state run by the CloseRequested hook
    cmdTask,    \* save_window_state run by save_window_state_cmd
    manual,     \* check_for_updates calls: returned value, version of the
                \* Update the check yielded, state of the spawned download
    ret,        \* value returned by the most recent other command
    launches,   \* later process launches: their arguments, whether they
                \* built a window, what the callback issued for them
    pending,    \* deep-link events emitted and not yet handled
    effects     \* calls issued on the main window by the relay callback
                \* and the deep-link handler, in order

vars == <<store, calls, phase, window, updater, closeTask, cmdTask,
          manual, ret, launches, pending, effects>>

(***************************************************************************)
(* Bounds                                                                  *)
(***************************************************************************)
MaxCalls == 2        \* settings-function calls per behaviour (SettingsSpec)
MaxManual == 2       \* check_for_updates invocations per behaviour
MaxLaunches == 1     \* secondary process launches per behaviour
MaxLinks == 2        \* deep-link events per behaviour

(***************************************************************************)
(* Rust Option and Result values                                           *)
(***************************************************************************)
None == [some |-> FALSE]
Some(x) == [some |-> TRUE, v |-> x]
Ok(x) == [ok |-> TRUE, v |-> x]
Err(e) == [ok |-> FALSE, e |-> e]

(***************************************************************************)
(* serde_json::Value.  A number remembers whether it is stored as an       *)
(* integer or as a float: i32 deserialisation refuses floats, f64          *)
(* serialisation always produces floats.                                   *)
(***************************************************************************)
JNull == [t |-> "null"]
JBool(b) == [t |-> "bool", b |-> b]
JInt(n) == [t |-> "num", kind |-> "int", v |-> n]
JFloat(n) == [t |-> "num", kind |-> "float", v |-> n]
JStr(s) == [t |-> "str", s |-> s]
JObj(f) == [t |-> "obj", f |-> f]

I32Max == 2147483647
I32Min == -I32Max - 1

as_str(v) == IF v.t = "str" THEN Some(v.s) ELSE None
as_bool(v) == IF v.t = "bool" THEN Some(v.b) ELSE None

IsF64(v) == v.t = "num"
IsI32(v) == v.t = "num" /\ v.kind = "int" /\ v.v >= I32Min /\ v.v <= I32Max
IsBool(v) == v.t = "bool"

WindowStateFields == {"width", "height", "x", "y", "maximized"}

\* #[derive(Default)] on WindowState: every field gets its type's default.
WindowStateDefault ==
    [width |-> 0, height |-> 0, x |-> 0, y |-> 0, maximized |-> FALSE]

\* impl Default for AppSettings
AppSettingsDefault ==
    [window_state |-> [width |-> 1400, height |-> 900, x |-> 100, y |-> 100,
                       maximized |-> FALSE],
     last_version |-> None,
     update_check_enabled |-> TRUE,
     notifications_enabled |-> TRUE]

\* serde_json::from_value::<WindowState>(v).ok()
WindowStateFromValue(v) ==
    IF /\ v.t = "obj"
       /\ WindowStateFields \subseteq DOMAIN v.f
       /\ IsF64(v.f["width"]) /\ IsF64(v.f["height"])
       /\ IsI32(v.f["x"]) /\ IsI32(v.f["y"])
       /\ IsBool(v.f["maximized"])
    THEN Some([width |-> v.f["width"].v, height |-> v.f["height"].v,
               x |-> v.f["x"].v, y |-> v.f["y"].v,
               maximized |-> v.f["maximized"].b])
    ELSE None

\* a to_value that writes the position as floats, like the size
WindowStateToValueFloatPos(ws) ==
    JObj([width |-> JFloat(ws.width), height |-> JFloat(ws.height),
          x |-> JFloat(ws.x), y |-> JFloat(ws.y),
          maximized |-> JBool(ws.maximized)])

\* serde_json::to_value(&WindowState)
WindowStateToValue(ws) ==
    JObj([width |-> JFloat(ws.width), height |-> JFloat(ws.height),
          x |-> JInt(ws.x), y |-> JInt(ws.y),
          maximized |-> JBool(ws.maximized)])

(***************************************************************************)
(* The store: store.get / store.set                                        *)
(***************************************************************************)
StoreGet(s, k) == IF k \in DOMAIN s THEN Some(s[k]) ELSE None
StoreSet(s, k, v) == [x \in (DOMAIN s) \cup {k} |-> IF x = k THEN v ELSE s[x]]

AndThenStr(o) == IF o.some THEN as_str(o.v) ELSE None
AndThenBool(o) == IF o.some THEN as_bool(o.v) ELSE None
AndThenWindowState(o) == IF o.some THEN WindowStateFromValue(o.v) ELSE None
UnwrapOr(o, d) == IF o.some THEN o.v ELSE d

\* Option<WindowState>::unwrap_or_default()
LoadWindowState(s) ==
    UnwrapOr(AndThenWindowState(StoreGet(s, "window_state")),
             WindowStateDefault)

\* a load_settings that reads a store it could not open as an empty one
load_settings_as_empty(s, opened) ==
    LET found == IF opened THEN s ELSE [k \in {} |-> JNull]
    IN  [window_state |-> LoadWindowState(found),
         last_version |-> AndThenStr(StoreGet(found, "last_version")),
         update_check_enabled |->
             UnwrapOr(AndThenBool(StoreGet(found, "update_check_enabled")), TRUE),
         notifications_enabled |->
             UnwrapOr(AndThenBool(StoreGet(found, "notifications_enabled")), TRUE)]

\* load_settings: opened is the outcome of app.store(".nubo-settings.json")
load_settings(s, opened) ==
    IF ~opened THEN AppSettingsDefault
    ELSE [window_state |-> LoadWindowState(s),
          last_version |-> AndThenStr(StoreGet(s, "last_version")),
          update_check_enabled |->
              UnwrapOr(AndThenBool(StoreGet(s, "update_check_enabled")), TRUE),
          notifications_enabled |->
              UnwrapOr(AndThenBool(StoreGet(s, "notifications_enabled")), TRUE)]

\* a write-back that mirrors an absent last_version into the store
SetOrClearLastVersion(s, settings) ==
    IF settings.last_version.some
    THEN StoreSet(s, "last_version", JStr(settings.last_version.v))
    ELSE [k \in (DOMAIN s) \ {"last_version"} |-> s[k]]

\* if let Some(ref version) = settings.last_version { store.set(...) }
SetLastVersion(s, settings) ==
    IF settings.last_version.some
    THEN StoreSet(s, "last_version", JStr(settings.last_version.v))
    ELSE s

\* save_settings: the store's contents after the call.  The result of the
\* closing store.save() is discarded and changes nothing store.get returns.
save_settings(s, opened, settings) ==
    IF ~opened THEN s
    ELSE LET s1 == StoreSet(s, "window_state",
                            WindowStateToValue(settings.window_state))
             s2 == SetLastVersion(s1, settings)
             s3 == StoreSet(s2, "update_check_enabled",
                            JBool(settings.update_check_enabled))
         IN  StoreSet(s3, "notifications_enabled",
                      JBool(settings.notifications_enabled))

\* commands::get_window_state
get_window_state(s, opened) ==
    IF ~opened THEN Err("store") ELSE Ok(LoadWindowState(s))

(***************************************************************************)
(* Versions.  CurrentVersion is env!("CARGO_PKG_VERSION") of the running   *)
(* build, OlderVersion what an earlier build recorded, NewVersions what    *)
(* the update source may offer.                                            *)
(***************************************************************************)
CurrentVersion == "1.0.0"
OlderVersion == "0.9.0"
NewVersions == {"1.1.0", "1.2.0"}

(***************************************************************************)
(* Store documents the process may find at start: no document, the one an  *)
(* earlier build wrote (after it recorded its own version before an        *)
(* update), one written by save_settings without a last_version, and a     *)
(* document with undecodable entries.                                      *)
(***************************************************************************)
EmptyStore == [k \in {} |-> JNull]

EarlierWs == [width |-> 1024, height |-> 768, x |-> -8, y |-> 20,
              maximized |-> TRUE]

EarlierStore ==
    save_settings(EmptyStore, TRUE,
                  [window_state |-> EarlierWs,
                   last_version |-> Some(OlderVersion),
                   update_check_enabled |-> FALSE,
                   notifications_enabled |-> TRUE])

FreshStore ==
    save_settings(EmptyStore, TRUE,
                  [AppSettingsDefault EXCEPT !.notifications_enabled = FALSE])

DamagedStore ==
    [k \in {"window_state", "last_version", "update_check_enabled"} |->
        CASE k = "window_state" -> JObj([width |-> JInt(1280), height |-> JInt(720)])
          [] k = "last_version" -> JInt(9)
          [] OTHER -> JStr("yes")]

InitStores == {EmptyStore, EarlierStore, FreshStore, DamagedStore}

(***************************************************************************)
(* The main window                                                         *)
(***************************************************************************)
MinWidth == 800
MinHeight == 600

Max(a, b) == IF a >= b THEN a ELSE b

NoWindow ==
    [exists |-> FALSE, width |-> 0, height |-> 0, x |-> 0, y |-> 0,
     maximized |-> FALSE, visible |-> FALSE, focused |-> FALSE,
     minimized |-> FALSE]

\* WebviewWindowBuilder ... .build(), then window.maximize() when asked
BuildWindow(settings) ==
    [exists |-> TRUE,
     width |-> Max(settings.window_state.width, MinWidth),
     height |-> Max(settings.window_state.height, MinHeight),
     x |-> settings.window_state.x,
     y |-> settings.window_state.y,
     maximized |-> settings.window_state.maximized,
     visible |-> TRUE, focused |-> TRUE, minimized |-> FALSE]

\* Geometries the user may give the live window
LiveGeometries ==
    { [width |-> 1600, height |-> 1000, x |-> -1200, y |-> 40, maximized |-> TRUE] }

Idle == [pc |-> "idle", settings |-> AppSettingsDefault, opened |-> FALSE]

\* window reads chained so that the first failure ends the capture: the
\* reads after it are not made
CaptureUntilFailure(settings, w, sizeOk, posOk, maxOk) ==
    [settings EXCEPT
        !.window_state.width = IF sizeOk THEN w.width ELSE @,
        !.window_state.height = IF sizeOk THEN w.height ELSE @,
        !.window_state.x = IF sizeOk /\ posOk THEN w.x ELSE @,
        !.window_state.y = IF sizeOk /\ posOk THEN w.y ELSE @,
        !.window_state.maximized =
            IF sizeOk /\ posOk /\ maxOk THEN w.maximized ELSE @]

\* the window reads of save_window_state; each may fail on its own
CaptureInto(settings, w, sizeOk, posOk, maxOk) ==
    [settings EXCEPT
        !.window_state.width = IF sizeOk THEN w.width ELSE @,
        !.window_state.height = IF sizeOk THEN w.height ELSE @,
        !.window_state.x = IF posOk THEN w.x ELSE @,
        !.window_state.y = IF posOk THEN w.y ELSE @,
        !.window_state.maximized = IF maxOk THEN w.maximized ELSE @]

\* save_window_state as one call: load_settings, the three window reads,
\* save_settings; the store's contents after it
save_window_state(s, w, openedLoad, openedSave, sizeOk, posOk, maxOk) ==
    save_settings(s, openedSave,
                  CaptureInto(load_settings(s, openedLoad), w, sizeOk, posOk, maxOk))

\* commands::save_window_state_cmd: the store's contents after it; it
\* returns Ok(()) in every case
save_window_state_cmd(s, w, openedLoad, openedSave, sizeOk, posOk, maxOk) ==
    IF w.exists
    THEN save_window_state(s, w, openedLoad, openedSave, sizeOk, posOk, maxOk)
    ELSE s

(***************************************************************************)
(* Results of the commands                                                 *)
(***************************************************************************)
\* commands::rollback_update
rollback_update(s, opened) ==
    IF ~opened THEN Err("store")
    ELSE LET last_version == AndThenStr(StoreGet(s, "last_version"))
         IN  IF last_version.some
             THEN Ok(<<"Previous version was ", last_version.v,
                       ". Please download from GitHub releases.">>)
             ELSE Ok(<<"No previous version available for rollback">>)

\* what updater.check().await may yield
CheckOutcomes ==
    {[kind |-> "update", version |-> v] : v \in NewVersions}
        \cup {[kind |-> "none", version |-> ""], [kind |-> "error", version |-> ""]}

\* the value check_for_updates returns once the check has completed
CheckForUpdatesResult(outcome) ==
    CASE outcome.kind = "update" ->
            Ok(<<"Update ", outcome.version, " available - downloading...">>)
      [] outcome.kind = "none" -> Ok(<<"No updates available">>)
      [] OTHER -> Err("check")

\* a check_for_updates that spawns the download whatever the check yielded
SpawnsDownloadAlways(outcome) == outcome.kind \in {"update", "none", "error"}

\* whether check_for_updates spawns download_and_install
SpawnsDownload(outcome) == outcome.kind = "update"

NoRet == [op |-> "none", val |-> Ok(<<>>)]

(***************************************************************************)
(* Initial state: the process has been started and setup has not run.      *)
(***************************************************************************)
UpdaterInit == [pc |-> "unspawned", settings |-> AppSettingsDefault,
                opened |-> FALSE, source |-> <<>>]

Init ==
    /\ store \in InitStores
    /\ calls = <<>>
    /\ phase = "launching"
    /\ window = NoWindow
    /\ updater = UpdaterInit
    /\ closeTask = Idle
    /\ cmdTask = Idle
    /\ manual = <<>>
    /\ ret = NoRet
    /\ launches = <<>>
    /\ pending = <<>>
    /\ effects = <<>>

(***************************************************************************)
(* run(): the setup closure.  A failed window build aborts the process.    *)
(***************************************************************************)
Setup(opened, built) ==
    /\ phase = "launching"
    /\ LET settings == load_settings(store, opened)
       IN  IF built
           THEN /\ window' = BuildWindow(settings)
                /\ phase' = "running"
                /\ updater' = [updater EXCEPT !.pc = "sleeping"]
           ELSE /\ phase' = "aborted"
                /\ UNCHANGED <<window, updater>>
    /\ UNCHANGED <<store, calls, closeTask, cmdTask, manual, ret,
                   launches, pending, effects>>

\* the user moves, resizes or maximizes the window
UserChange(g) ==
    /\ phase = "running" /\ window.exists
    /\ window' = [window EXCEPT !.width = g.width, !.height = g.height,
                                !.x = g.x, !.y = g.y,
                                !.maximized = g.maximized]
    /\ window' # window
    /\ UNCHANGED <<store, calls, phase, updater, closeTask, cmdTask,
                   manual, ret, launches, pending, effects>>

(***************************************************************************)
(* save_window_state, in two steps: load_settings with the window reads,   *)
(* then save_settings.  The CloseRequested hook runs it on the event loop, *)
(* save_window_state_cmd on the async runtime.                             *)
(***************************************************************************)
CloseLoad(opened, sizeOk, posOk, maxOk) ==
    /\ phase = "running" /\ window.exists
    /\ closeTask.pc = "idle"
    /\ closeTask' = [pc |-> "loaded",
                     settings |-> CaptureInto(load_settings(store, opened),
                                              window, sizeOk, posOk, maxOk),
                     opened |-> opened]
    /\ UNCHANGED <<store, calls, phase, window, updater, cmdTask,
                   manual, ret, launches, pending, effects>>

\* The hook returns; the window then closes and, being the last one, ends
\* the application: the other tasks are abandoned where they stand.
CloseSave(opened) ==
    /\ phase = "running"
    /\ closeTask.pc = "loaded"
    /\ store' = save_settings(store, opened, closeTask.settings)
    /\ closeTask' = [closeTask EXCEPT !.pc = "done", !.opened = opened]
    /\ phase' = "exited"
    /\ window' = [window EXCEPT !.exists = FALSE]
    /\ UNCHANGED <<calls, updater, cmdTask, manual, ret, launches, pending,
                   effects>>

CmdLoad(opened, sizeOk, posOk, maxOk) ==
    /\ phase = "running"
    /\ cmdTask.pc = "idle"
    /\ IF window.exists
       THEN /\ cmdTask' = [cmdTask EXCEPT
                    !.pc = "loaded",
                    !.settings = CaptureInto(load_settings(store, opened),
                                             window, sizeOk, posOk, maxOk),
                    !.opened = opened]
            /\ ret' = ret
       ELSE /\ cmdTask' = cmdTask
            /\ ret' = [op |-> "save_window_state_cmd", val |-> Ok(<<>>)]
    /\ UNCHANGED <<store, calls, phase, window, updater, closeTask,
                   manual, launches, pending, effects>>

CmdSave(opened) ==
    /\ phase = "running"
    /\ cmdTask.pc = "loaded"
    /\ store' = save_settings(store, opened, cmdTask.settings)
    /\ cmdTask' = [cmdTask EXCEPT !.pc = "idle", !.opened = opened]
    /\ ret' = [op |-> "save_window_state_cmd", val |-> Ok(<<>>)]
    /\ UNCHANGED <<calls, phase, window, updater, closeTask, manual,
                   launches, pending, effects>>

(***************************************************************************)
(* check_and_install_update: the silent cycle, spawned by setup            *)
(***************************************************************************)
\* a cycle that goes back to a new check when the check has failed
AfterCheckRetrying(updaterOk, outcome) ==
    IF ~updaterOk THEN "no_updater"
    ELSE CASE outcome.kind = "update" -> "available"
           [] outcome.kind = "none" -> "no_update"
           [] OTHER -> "sleeping"

\* pc of the task once app.updater() and updater.check().await have returned
AfterCheck(updaterOk, outcome) ==
    IF ~updaterOk THEN "no_updater"
    ELSE CASE outcome.kind = "update" -> "available"
           [] outcome.kind = "none" -> "no_update"
           [] OTHER -> "check_failed"

\* a cycle that consults the stored update_check_enabled before checking
U_CheckIfEnabled(updaterOk, outcome) ==
    /\ phase = "running"
    /\ updater.pc = "sleeping"
    /\ load_settings(store, TRUE).update_check_enabled
    /\ updater' = [updater EXCEPT
            !.pc = AfterCheck(updaterOk, outcome),
            !.source = IF updaterOk
                       THEN Append(@, [call |-> "check", got |-> outcome.kind])
                       ELSE @]
    /\ UNCHANGED <<store, calls, phase, window, closeTask, cmdTask,
                   manual, ret, launches, pending, effects>>

U_Check(updaterOk, outcome) ==
    /\ phase = "running"
    /\ updater.pc = "sleeping"
    /\ updater' = [updater EXCEPT
            !.pc = AfterCheck(updaterOk, outcome),
            !.source = IF updaterOk
                       THEN Append(@, [call |-> "check", got |-> outcome.kind])
                       ELSE @]
    /\ UNCHANGED <<store, calls, phase, window, closeTask, cmdTask,
                   manual, ret, launches, pending, effects>>

\* let mut settings = load_settings(app); settings.last_version = Some(current)
WithCurrentVersion(settings) ==
    [settings EXCEPT !.last_version = Some(CurrentVersion)]

U_Load(opened) ==
    /\ phase = "running"
    /\ updater.pc = "available"
    /\ updater' = [updater EXCEPT
            !.pc = "loaded",
            !.settings = WithCurrentVersion(load_settings(store, opened))]
    /\ UNCHANGED <<store, calls, phase, window, closeTask, cmdTask,
                   manual, ret, launches, pending, effects>>

U_Save(opened) ==
    /\ phase = "running"
    /\ updater.pc = "loaded"
    /\ store' = save_settings(store, opened, updater.settings)
    /\ updater' = [updater EXCEPT !.pc = "saved", !.opened = opened]
    /\ UNCHANGED <<calls, phase, window, closeTask, cmdTask, manual, ret,
                   launches, pending, effects>>

\* update.download_and_install(...) is called
U_StartDownload ==
    /\ phase = "running"
    /\ updater.pc = "saved"
    /\ updater' = [updater EXCEPT
            !.pc = "downloading",
            !.source = Append(@, [call |-> "download_and_install",
                                  got |-> "pending"])]
    /\ UNCHANGED <<store, calls, phase, window, closeTask, cmdTask,
                   manual, ret, launches, pending, effects>>

U_DownloadDone(ok) ==
    /\ phase = "running"
    /\ updater.pc = "downloading"
    /\ updater' = [updater EXCEPT
            !.pc = IF ok THEN "installed" ELSE "install_failed",
            !.source[Len(updater.source)].got = IF ok THEN "ok" ELSE "error"]
    /\ UNCHANGED <<store, calls, phase, window, closeTask, cmdTask,
                   manual, ret, launches, pending, effects>>

(***************************************************************************)
(* commands::check_for_updates and the download task it spawns             *)
(***************************************************************************)
M_Invoke(updaterOk) ==
    /\ phase = "running"
    /\ Len(manual) < MaxManual
    /\ IF updaterOk
       THEN /\ manual' = Append(manual, [pc |-> "checking",
                                         result |-> Err("pending"),
                                         update |-> "",
                                         dl |-> "none"])
       ELSE /\ manual' = Append(manual, [pc |-> "returned",
                                         result |-> Err("updater"),
                                         update |-> "",
                                         dl |-> "none"])
    /\ UNCHANGED <<store, calls, phase, window, updater, closeTask,
                   cmdTask, ret, launches, pending, effects>>

M_CheckDone(i, outcome) ==
    /\ phase = "running"
    /\ i \in DOMAIN manual
    /\ manual[i].pc = "checking"
    /\ manual' = [manual EXCEPT
            ![i] = [pc |-> "returned",
                    result |-> CheckForUpdatesResult(outcome),
                    update |-> outcome.version,
                    dl |-> IF SpawnsDownload(outcome) THEN "running" ELSE "none"]]
    /\ UNCHANGED <<store, calls, phase, window, updater, closeTask,
                   cmdTask, ret, launches, pending, effects>>

M_DownloadDone(i, ok) ==
    /\ phase = "running"
    /\ i \in DOMAIN manual
    /\ manual[i].dl = "running"
    /\ manual' = [manual EXCEPT ![i].dl = IF ok THEN "installed" ELSE "failed"]
    /\ UNCHANGED <<store, calls, phase, window, updater, closeTask,
                   cmdTask, ret, launches, pending, effects>>

\* commands::rollback_update
Rollback(opened) ==
    /\ phase = "running"
    /\ ret' = [op |-> "rollback_update", val |-> rollback_update(store, opened)]
    /\ ret' # ret
    /\ UNCHANGED <<store, calls, phase, window, updater, closeTask,
                   cmdTask, manual, launches, pending, effects>>

\* outcomes of the three window reads explored together with the other
\* tasks: all succeed or all fail
ReadsTogether == {<<TRUE, TRUE, TRUE>>, <<FALSE, FALSE, FALSE>>}

SetupStep == \E opened, built \in BOOLEAN : Setup(opened, built)
UserStep == \E g \in LiveGeometries : UserChange(g)
CloseLoadStep ==
    \E opened \in BOOLEAN, r \in ReadsTogether : CloseLoad(opened, r[1], r[2], r[3])
CloseSaveStep == \E opened \in BOOLEAN : CloseSave(opened)
CmdLoadStep ==
    \E opened \in BOOLEAN, r \in ReadsTogether : CmdLoad(opened, r[1], r[2], r[3])
CmdSaveStep == \E opened \in BOOLEAN : CmdSave(opened)
UpdaterStep ==
    \/ \E updaterOk \in BOOLEAN, outcome \in CheckOutcomes :
          U_Check(updaterOk, outcome)
    \/ \E opened \in BOOLEAN : U_Load(opened)
    \/ \E opened \in BOOLEAN : U_Save(opened)
    \/ U_StartDownload
    \/ \E ok \in BOOLEAN : U_DownloadDone(ok)
ManualStep ==
    \/ \E updaterOk \in BOOLEAN : M_Invoke(updaterOk)
    \/ \E i \in 1..MaxManual, outcome \in CheckOutcomes : M_CheckDone(i, outcome)
    \/ \E i \in 1..MaxManual, ok \in BOOLEAN : M_DownloadDone(i, ok)
RollbackStep == \E opened \in BOOLEAN : Rollback(opened)

(***************************************************************************)
(* Spec: the writers of the settings store in one process (setup, silent   *)
(* updater, close hook, save_window_state_cmd) with rollback_update.       *)
(***************************************************************************)
Next ==
    \/ SetupStep
    \/ UserStep
    \/ CloseLoadStep
    \/ CloseSaveStep
    \/ CmdLoadStep
    \/ CmdSaveStep
    \/ UpdaterStep
    \/ RollbackStep

Spec == Init /\ [][Next]_vars

(***************************************************************************)
(* UpdateSpec: the update manager alone, silent cycle and manual checks,   *)
(* with rollback_update.                                                   *)
(***************************************************************************)
UpdateNext ==
    \/ SetupStep
    \/ UpdaterStep
    \/ ManualStep
    \/ RollbackStep

UpdateSpec == Init /\ [][UpdateNext]_vars

\* The spawned task is scheduled by the async runtime, and every call it
\* awaits on the update source returns: it keeps taking steps until it ends.
UpdateFairSpec == UpdateSpec /\ WF_vars(UpdaterStep)

(***************************************************************************)
(* DegradedSpec: the process of Spec on a machine where every attempt to   *)
(* open the settings store fails (permissions, corrupt document).          *)
(***************************************************************************)
DegradedNext ==
    \/ \E built \in BOOLEAN : Setup(FALSE, built)
    \/ UserStep
    \/ \E sizeOk, posOk, maxOk \in BOOLEAN : CloseLoad(FALSE, sizeOk, posOk, maxOk)
    \/ CloseSave(FALSE)
    \/ \E sizeOk, posOk, maxOk \in BOOLEAN : CmdLoad(FALSE, sizeOk, posOk, maxOk)
    \/ CmdSave(FALSE)
    \/ \E updaterOk \in BOOLEAN, outcome \in CheckOutcomes :
          U_Check(updaterOk, outcome)
    \/ U_Load(FALSE)
    \/ U_Save(FALSE)
    \/ U_StartDownload
    \/ \E ok \in BOOLEAN : U_DownloadDone(ok)

DegradedSpec == Init /\ [][DegradedNext]_vars

(***************************************************************************)
(* SettingsSpec: load_settings, save_settings and get_window_state applied *)
(* one after another to a store, each call logged with the store it found. *)
(***************************************************************************)
\* WindowState values save_settings can be handed: what load_settings
\* returns and what the window reads yield (u32 sizes, i32 positions)
WsInputs ==
    { WindowStateDefault, AppSettingsDefault.window_state, EarlierWs,
      [width |-> 7680, height |-> 1, x |-> I32Min, y |-> I32Max,
       maximized |-> TRUE] }
        \cup LiveGeometries

SettingsInputs ==
    { [window_state |-> ws, last_version |-> lv,
       update_check_enabled |-> TRUE, notifications_enabled |-> FALSE] :
          ws \in WsInputs, lv \in {None, Some(CurrentVersion)} }

CallSave(opened, settings) ==
    /\ Len(calls) < MaxCalls
    /\ store' = save_settings(store, opened, settings)
    /\ calls' = Append(calls, [op |-> "save_settings", opened |-> opened,
                               arg |-> settings, pre |-> store,
                               val |-> settings])
    /\ UNCHANGED <<phase, window, updater, closeTask, cmdTask, manual, ret,
                   launches, pending, effects>>

CallLoad(opened) ==
    /\ Len(calls) < MaxCalls
    /\ calls' = Append(calls, [op |-> "load_settings", opened |-> opened,
                               arg |-> AppSettingsDefault, pre |-> store,
                               val |-> load_settings(store, opened)])
    /\ UNCHANGED <<store, phase, window, updater, closeTask, cmdTask, manual,
                   ret, launches, pending, effects>>

CallGetWindowState(opened) ==
    /\ Len(calls) < MaxCalls
    /\ calls' = Append(calls, [op |-> "get_window_state", opened |-> opened,
                               arg |-> AppSettingsDefault, pre |-> store,
                               val |-> get_window_state(store, opened)])
    /\ UNCHANGED <<store, phase, window, updater, closeTask, cmdTask, manual,
                   ret, launches, pending, effects>>

SettingsNext ==
    \/ \E opened \in BOOLEAN, settings \in SettingsInputs : CallSave(opened, settings)
    \/ \E opened \in BOOLEAN : CallLoad(opened)
    \/ \E opened \in BOOLEAN : CallGetWindowState(opened)

SettingsSpec == Init /\ [][SettingsNext]_vars

(***************************************************************************)
(* PersistSpec: the commands that touch the settings store, invoked one    *)
(* after another on the running instance while the user changes the        *)
(* window; each call is logged with the store it found and left.           *)
(***************************************************************************)
PersistInit ==
    /\ store \in InitStores
    /\ calls = <<>>
    /\ phase = "running"
    /\ window = BuildWindow(load_settings(store, TRUE))
    /\ updater = [UpdaterInit EXCEPT !.pc = "sleeping"]
    /\ closeTask = Idle
    /\ cmdTask = Idle
    /\ manual = <<>>
    /\ ret = NoRet
    /\ launches = <<>>
    /\ pending = <<>>
    /\ effects = <<>>

CallSaveWindowStateCmd(openedLoad, openedSave, sizeOk, posOk, maxOk) ==
    /\ Len(calls) < MaxCalls
    /\ store' = save_window_state_cmd(store, window, openedLoad, openedSave,
                                      sizeOk, posOk, maxOk)
    /\ calls' = Append(calls,
            [op |-> "save_window_state_cmd",
             openedLoad |-> openedLoad, openedSave |-> openedSave,
             sizeOk |-> sizeOk, posOk |-> posOk, maxOk |-> maxOk,
             live |-> window, pre |-> store, post |-> store',
             val |-> Ok(<<>>)])
    /\ UNCHANGED <<phase, window, updater, closeTask, cmdTask, manual, ret,
                   launches, pending, effects>>

CallRollback(opened) ==
    /\ Len(calls) < MaxCalls
    /\ calls' = Append(calls, [op |-> "rollback_update", opened |-> opened,
                               arg |-> AppSettingsDefault, pre |-> store,
                               val |-> rollback_update(store, opened)])
    /\ UNCHANGED <<store, phase, window, updater, closeTask, cmdTask, manual,
                   ret, launches, pending, effects>>

PersistNext ==
    \/ UserStep
    \/ \E openedLoad, openedSave, sizeOk, posOk, maxOk \in BOOLEAN :
          CallSaveWindowStateCmd(openedLoad, openedSave, sizeOk, posOk, maxOk)
    \/ \E opened \in BOOLEAN : CallGetWindowState(opened)
    \/ \E opened \in BOOLEAN : CallRollback(opened)

PersistSpec == PersistInit /\ [][PersistNext]_vars

(***************************************************************************)
(* Strings of the deep-link router, as sequences of characters             *)
(***************************************************************************)
MailtoScheme == <<"m", "a", "i", "l", "t", "o", ":">>
NuboScheme == <<"n", "u", "b", "o", ":", "/", "/">>
ComposeUrl == <<"https://nubo.email/mail/inbox?isComposeOpen=true&to=">>
HostUrl == <<"https://nubo.email/">>

\* str::contains
RECURSIVE ContainsSeq(_, _)
ContainsSeq(str, pat) ==
    /\ Len(str) >= Len(pat)
    /\ \/ SubSeq(str, 1, Len(pat)) = pat
       \/ ContainsSeq(Tail(str), pat)

\* str::starts_with
StartsWith(str, pat) ==
    Len(str) >= Len(pat) /\ SubSeq(str, 1, Len(pat)) = pat

\* str::replace(pat, ""): every non-overlapping match, left to right
RECURSIVE Remove(_, _)
Remove(str, pat) ==
    IF str = <<>> THEN <<>>
    ELSE IF StartsWith(str, pat)
         THEN Remove(SubSeq(str, Len(pat) + 1, Len(str)), pat)
         ELSE <<Head(str)>> \o Remove(Tail(str), pat)

\* str.split(c).next().unwrap_or("")
RECURSIVE BeforeFirst(_, _)
BeforeFirst(str, c) ==
    IF str = <<>> \/ Head(str) = c THEN <<>>
    ELSE <<Head(str)>> \o BeforeFirst(Tail(str), c)

\* urlencoding::encode: all but ASCII letters, digits and - _ . ~ become %XX
Unreserved == {"a", "b", "i", "l", "m", "n", "o", "s", "t", "u", "h", "M", "."}
PercentCode(c) ==
    CASE c = ":" -> <<"%", "3", "A">>
      [] c = "/" -> <<"%", "2", "F">>
      [] c = "@" -> <<"%", "4", "0">>
      [] c = "?" -> <<"%", "3", "F">>
      [] c = "=" -> <<"%", "3", "D">>

RECURSIVE Encode(_)
Encode(str) ==
    IF str = <<>> THEN <<>>
    ELSE (IF Head(str) \in Unreserved THEN <<Head(str)>> ELSE PercentCode(Head(str)))
            \o Encode(Tail(str))

\* calls on the window
WinCall(op) == [op |-> op, script |-> <<>>]
\* window.eval(&format!("window.location.href = '{}';", nav_url))
EvalNav(nav_url) ==
    [op |-> "eval", script |-> <<"window.location.href = '">> \o nav_url \o <<"';">>]

\* a handle_deep_link that navigates first and raises the window afterwards
handle_deep_link_nav_first(hasWindow, url) ==
    IF ~hasWindow THEN <<>>
    ELSE IF StartsWith(url, MailtoScheme)
         THEN <<EvalNav(ComposeUrl \o
                        Encode(BeforeFirst(Remove(url, MailtoScheme), "?"))),
                WinCall("show"), WinCall("set_focus")>>
         ELSE IF StartsWith(url, NuboScheme)
              THEN <<EvalNav(HostUrl \o Remove(url, NuboScheme)),
                     WinCall("show"), WinCall("set_focus")>>
              ELSE <<>>

\* handle_deep_link: the calls it issues on the main window, in order
handle_deep_link(hasWindow, url) ==
    IF StartsWith(url, MailtoScheme)
    THEN LET cleaned == Remove(url, MailtoScheme)
             email == BeforeFirst(cleaned, "?")
         IN  IF hasWindow
             THEN <<WinCall("show"), WinCall("set_focus"),
                    EvalNav(ComposeUrl \o Encode(email))>>
             ELSE <<>>
    ELSE IF StartsWith(url, NuboScheme)
         THEN IF hasWindow
              THEN <<WinCall("show"), WinCall("set_focus"),
                     EvalNav(HostUrl \o Remove(url, NuboScheme))>>
              ELSE <<>>
         ELSE <<>>

\* the callback given to tauri_plugin_single_instance::init; args and cwd
\* of the second launch are not used
single_instance_callback(hasWindow, args) ==
    IF hasWindow
    THEN <<WinCall("show"), WinCall("unminimize"), WinCall("set_focus")>>
    ELSE <<>>

\* the window after the calls issued on it
RECURSIVE ApplyCalls(_, _)
ApplyCalls(w, cs) ==
    IF cs = <<>> THEN w
    ELSE ApplyCalls(
            CASE Head(cs).op = "show" -> [w EXCEPT !.visible = TRUE]
              [] Head(cs).op = "unminimize" -> [w EXCEPT !.minimized = FALSE]
              [] Head(cs).op = "set_focus" -> [w EXCEPT !.focused = TRUE]
              [] OTHER -> w,
            Tail(cs))

(***************************************************************************)
(* RouteSpec: handle_deep_link applied once to each of the URIs below, the *)
(* window in the foreground or not.                                        *)
(* LinkSpec: deep-link events and second launches reaching the running     *)
(* instance, in any order.                                                 *)
(***************************************************************************)
UriHeads == {MailtoScheme, NuboScheme, <<"h", ":">>,
             <<"M", "a", "i", "l", "t", "o", ":">>}
UriBodies == {<<>>, <<"a", "@", "b">>, MailtoScheme \o <<"b">>,
              NuboScheme \o <<"a", "/", "b">>}
UriTails == {<<>>, <<"?", "s", "=", "M">>}
UriInputs == {h \o b \o t : h \in UriHeads, b \in UriBodies, t \in UriTails}

\* deep-link argument of a second launch, if any
LaunchArgs == {None, Some(MailtoScheme \o <<"a", "@", "b">>),
               Some(NuboScheme \o <<"a", "/", "b">>)}

\* URIs of the deep-link events of LinkSpec
LinkUris == {MailtoScheme \o <<"a", "@", "b">>,
             NuboScheme \o <<"a", "/", "b">>,
             MailtoScheme \o MailtoScheme \o <<"b">>,
             <<"h", ":">> \o <<"a", "@", "b">>}

LinkInit ==
    /\ Init
    /\ store = EmptyStore

\* the instance is running with its window built from the default settings
\* and one deep-link event has been emitted
RouteInit ==
    /\ store = EmptyStore
    /\ calls = <<>>
    /\ phase = "running"
    /\ window = BuildWindow(AppSettingsDefault)
    /\ updater = [UpdaterInit EXCEPT !.pc = "sleeping"]
    /\ closeTask = Idle
    /\ cmdTask = Idle
    /\ manual = <<>>
    /\ ret = NoRet
    /\ launches = <<>>
    /\ pending \in {<<url>> : url \in UriInputs}
    /\ effects = <<>>

\* the user minimizes the window or moves to another application
Background ==
    /\ phase = "running" /\ window.exists
    /\ window' = [window EXCEPT !.minimized = TRUE, !.focused = FALSE]
    /\ window' # window
    /\ UNCHANGED <<store, calls, phase, updater, closeTask, cmdTask, manual,
                   ret, launches, pending, effects>>

\* the deep-link plugin emits "deep-link://new-url"
DeepLinkArrive(url) ==
    /\ phase = "running"
    /\ Len(pending) + Len(calls) < MaxLinks
    /\ pending' = Append(pending, url)
    /\ UNCHANGED <<store, calls, phase, window, updater, closeTask, cmdTask,
                   manual, ret, launches, effects>>

\* the listener registered in setup: handle_deep_link(&handle, payload)
HandleDeepLink ==
    /\ phase = "running"
    /\ pending # <<>>
    /\ LET url == Head(pending)
           issued == handle_deep_link(window.exists, url)
       IN  /\ effects' = effects \o issued
           /\ window' = ApplyCalls(window, issued)
           /\ calls' = Append(calls, [op |-> "handle_deep_link", url |-> url,
                                      issued |-> issued, before |-> window])
    /\ pending' = Tail(pending)
    /\ UNCHANGED <<store, phase, updater, closeTask, cmdTask, manual, ret,
                   launches>>

\* A second process is launched while this one exists.  The single-instance
\* plugin hands its arguments and working directory to the callback of the
\* first process; the second process ends without building a window.
SecondLaunch(args) ==
    /\ phase \in {"launching", "running"}
    /\ Len(launches) < MaxLaunches
    /\ LET issued == single_instance_callback(window.exists, args)
       IN  /\ effects' = effects \o issued
           /\ window' = ApplyCalls(window, issued)
           /\ launches' = Append(launches, [args |-> args, window |-> FALSE,
                                            hadWindow |-> window.exists,
                                            issued |-> issued])
    /\ UNCHANGED <<store, calls, phase, updater, closeTask, cmdTask, manual,
                   ret, pending>>

LinkNext ==
    \/ SetupStep
    \/ Background
    \/ \E url \in LinkUris : DeepLinkArrive(url)
    \/ HandleDeepLink
    \/ \E args \in LaunchArgs : SecondLaunch(args)

LinkSpec == LinkInit /\ [][LinkNext]_vars

RouteNext ==
    \/ Background
    \/ HandleDeepLink

RouteSpec == RouteInit /\ [][RouteNext]_vars

(***************************************************************************)
(* Properties of the settings functions (SettingsSpec)                     *)
(***************************************************************************)
LastVersionIn(s) == AndThenStr(StoreGet(s, "last_version"))
WindowStateDecodable(s) ==
    AndThenWindowState(StoreGet(s, "window_state")).some

\* C1: load_settings on a store that opens and holds no keys returns the
\* documented defaults (1400 x 900 at (100, 100), not maximized, no
\* last_version, both flags true); and whenever the window_state key is
\* absent or not decodable the window_state returned is the documented one.
C1_LoadYieldsDocumentedDefaults ==
    \A i \in DOMAIN calls :
        (calls[i].op = "load_settings" /\ calls[i].opened) =>
            /\ (DOMAIN calls[i].pre = {} => calls[i].val = AppSettingsDefault)
            /\ (~WindowStateDecodable(calls[i].pre) =>
                    calls[i].val.window_state = AppSettingsDefault.window_state)

\* C4: save_settings with window_state = w on an opened store, whatever the
\* store held, followed by load_settings or by get_window_state, returns a
\* window_state equal to w in all five fields.
C4_WindowStateRoundTrip ==
    \A i \in 1..(Len(calls) - 1) :
        (calls[i].op = "save_settings" /\ calls[i].opened /\ calls[i + 1].opened) =>
            /\ (calls[i + 1].op = "load_settings" =>
                    calls[i + 1].val.window_state = calls[i].arg.window_state)
            /\ (calls[i + 1].op = "get_window_state" =>
                    calls[i + 1].val = Ok(calls[i].arg.window_state))

\* a save over a store with an undecodable window_state, of a geometry at the
\* ends of the i32 range, read back by load_settings
C4_Witness ==
    /\ Len(calls) = 2
    /\ calls[1].op = "save_settings" /\ calls[1].opened
    /\ calls[1].pre = DamagedStore
    /\ calls[1].arg.window_state.x = I32Min
    /\ calls[2].op = "load_settings" /\ calls[2].opened
    /\ calls[2].val.window_state.x = I32Min
    /\ calls[2].val.window_state.maximized

(***************************************************************************)
(* Properties of the update manager (Spec, UpdateSpec)                     *)
(***************************************************************************)
DownloadStarted == updater.pc \in {"downloading", "installed", "install_failed"}

\* C2: in a silent cycle whose check yielded an update and whose save opened
\* the store, from the start of download_and_install onward (in progress,
\* failed, installed, or killed there) last_version in the store is the
\* running version.
C2_LastVersionHeldFromDownloadOn ==
    (DownloadStarted /\ updater.opened) =>
        LastVersionIn(store) = Some(CurrentVersion)

\* C3: after a successful installation, started by the silent cycle (with
\* the store opened) or by check_for_updates, last_version in the store is
\* the version that was running before the installation.
C3_InstalledRecordsRunningVersion ==
    (\/ updater.pc = "installed" /\ updater.opened
     \/ \E i \in DOMAIN manual : manual[i].dl = "installed")
        => LastVersionIn(store) = Some(CurrentVersion)

\* C5: every rollback_update call returns a success value, "unavailable" when
\* no last_version string is recorded and naming exactly the recorded
\* version otherwise, never an error; it installs nothing and leaves the
\* store unchanged.
C5_RollbackAlwaysSucceeds ==
    [][(ret' # ret /\ ret'.op = "rollback_update") =>
          /\ ret'.val.ok
          /\ ret'.val.v =
                IF LastVersionIn(store).some
                THEN <<"Previous version was ", LastVersionIn(store).v,
                       ". Please download from GitHub releases.">>
                ELSE <<"No previous version available for rollback">>
          /\ store' = store
          /\ updater' = updater /\ manual' = manual]_vars

\* the check of call i yielded UpdateAvailable(v) and the call returned
ReturnedAvailable(m) ==
    /\ m.pc = "returned"
    /\ m.update \in NewVersions
    /\ m.result.ok
    /\ m.result.v = <<"Update ", m.update, " available - downloading...">>

ManualReturnIsConsistent ==
    \A i \in DOMAIN manual :
        /\ manual[i].pc = "checking" => manual[i].dl = "none"
        /\ manual[i].pc = "returned" =>
              \/ ReturnedAvailable(manual[i]) /\ manual[i].dl # "none"
              \/ /\ manual[i].update = ""
                 /\ manual[i].dl = "none"
                 /\ manual[i].result.ok =>
                        manual[i].result.v = <<"No updates available">>

ManualReturnIsFinal ==
    \A i \in DOMAIN manual :
        /\ (manual[i].pc = "checking" /\ ReturnedAvailable(manual'[i]))
              => manual'[i].dl = "running"
        /\ manual[i].pc = "returned"
              => manual'[i].pc = "returned" /\ manual'[i].result = manual[i].result

BeginsWith(url, scheme) == \E n \in 0..Len(url) : SubSeq(url, 1, n) = scheme
StripLeading(url, scheme) == SubSeq(url, Len(scheme) + 1, Len(url))
Issues(call, c) == \E k \in DOMAIN call.issued : call.issued[k] = c
Unrecognized(url) ==
    ~BeginsWith(url, MailtoScheme) /\ ~BeginsWith(url, NuboScheme)

\* C6: for every URI beginning with "mailto:" handle_deep_link requests
\* navigation to the compose URL followed by the percent-encoding of the
\* URI with only its leading "mailto:" removed, cut at the first '?'.
C6_MailtoNavigatesToRecipient ==
    \A i \in DOMAIN calls :
        BeginsWith(calls[i].url, MailtoScheme) =>
            Issues(calls[i],
                   EvalNav(ComposeUrl \o
                           Encode(BeforeFirst(StripLeading(calls[i].url, MailtoScheme),
                                              "?"))))

\* C7: for every URI beginning with "nubo://" handle_deep_link requests
\* navigation to "https://nubo.email/" followed by the URI after its
\* leading "nubo://", otherwise unchanged.
C7_NuboNavigatesToPath ==
    \A i \in DOMAIN calls :
        BeginsWith(calls[i].url, NuboScheme) =>
            Issues(calls[i],
                   EvalNav(HostUrl \o StripLeading(calls[i].url, NuboScheme)))

\* C8: handling a URI that begins with neither "mailto:" nor "nubo://"
\* issues no navigation, no show and no focus, and changes nothing else.
C8_UnrecognizedIsIgnored ==
    [][(/\ Len(calls') = Len(calls) + 1
        /\ Unrecognized(calls'[Len(calls')].url))
          => /\ calls'[Len(calls')].issued = <<>>
             /\ effects' = effects
             /\ window' = window
             /\ UNCHANGED <<store, phase, updater, closeTask, cmdTask, manual,
                            ret, launches>>]_vars

\* an ignored URI that carries "mailto:" after another scheme, handled while
\* the window was minimized and unfocused, which it still is
C8_Witness ==
    /\ Len(calls) = 1
    /\ Unrecognized(calls[1].url)
    /\ ContainsSeq(calls[1].url, MailtoScheme)
    /\ calls[1].before.minimized
    /\ window.minimized /\ ~window.focused
    /\ effects = <<>> /\ pending = <<>>

Delivered(url) ==
    \/ \E k \in DOMAIN pending : pending[k] = url
    \/ \E k \in DOMAIN calls : calls[k].url = url

\* C9: no later launch builds a window; for a launch that finds the main
\* window the first instance shows, unminimizes and focuses it, and a
\* deep-link argument of that launch is delivered to the first instance.
C9_SecondLaunchIsRelayed ==
    \A i \in DOMAIN launches :
        /\ ~launches[i].window
        /\ launches[i].hadWindow =>
              /\ \A op \in {"show", "unminimize", "set_focus"} :
                    Issues(launches[i], WinCall(op))
              /\ launches[i].args.some => Delivered(launches[i].args.v)

(***************************************************************************)
(* Properties of window-state persistence and of the commands that read    *)
(* the store (PersistSpec)                                                 *)
(***************************************************************************)
OtherKeys == {"last_version", "update_check_enabled", "notifications_enabled"}
IsPersist(c) == c.op = "save_window_state_cmd"
StoredWs(s) == AndThenWindowState(StoreGet(s, "window_state"))

\* C11: save_window_state changes only the window_state entry: whatever the
\* store held, last_version, update_check_enabled and notifications_enabled
\* are present or absent after the call as before it, with the same values.
C11_PersistTouchesOnlyWindowState ==
    \A i \in DOMAIN calls :
        IsPersist(calls[i]) =>
            \A k \in OtherKeys :
                StoreGet(calls[i].post, k) = StoreGet(calls[i].pre, k)

C14_CommandsNeverReturnError ==
    \A i \in DOMAIN calls :
        calls[i].op \in {"get_window_state", "rollback_update",
                         "save_window_state_cmd"} => calls[i].val.ok

(***************************************************************************)
(* Properties of a process whose settings store cannot be opened           *)
(* (DegradedSpec)                                                          *)
(***************************************************************************)
DocumentedGeometry(w) ==
    /\ w.width = 1400 /\ w.height = 900
    /\ w.x = 100 /\ w.y = 100
    /\ ~w.maximized

\* what save_window_state holds after load_settings and the window reads
LoadedIsDefaultOrLive(task, w) ==
    /\ task.settings.last_version = None
    /\ task.settings.update_check_enabled
    /\ task.settings.notifications_enabled
    /\ \A f \in WindowStateFields :
          \/ task.settings.window_state[f] = w[f]
          \/ task.settings.window_state[f] = AppSettingsDefault.window_state[f]

StoreFailureIsAbsorbed ==
    /\ store' = store
    /\ (phase = "launching" /\ phase' = "running") =>
          window'.exists /\ DocumentedGeometry(window')
    /\ phase' = "aborted" => phase \in {"launching", "aborted"}
    /\ (closeTask.pc = "idle" /\ closeTask'.pc = "loaded") =>
          LoadedIsDefaultOrLive(closeTask', window)
    /\ (cmdTask.pc = "idle" /\ cmdTask'.pc = "loaded") =>
          LoadedIsDefaultOrLive(cmdTask', window)
    /\ (closeTask.pc = "loaded" /\ closeTask'.pc # "loaded") =>
          closeTask'.pc = "done" /\ phase' = "exited"
    /\ (cmdTask.pc = "loaded" /\ cmdTask'.pc # "loaded") =>
          cmdTask'.pc = "idle" /\ ret'.val = Ok(<<>>)
    /\ (updater.pc = "available" /\ updater'.pc # "available") =>
          /\ updater'.pc = "loaded"
          /\ updater'.settings =
                [AppSettingsDefault EXCEPT !.last_version = Some(CurrentVersion)]
    /\ (updater.pc = "loaded" /\ updater'.pc # "loaded") =>
          updater'.pc = "saved"

\* C13: when the store cannot be opened, load_settings returns the
\* documented defaults, save_settings and save_window_state leave the store
\* as it was and return, setup builds the window with the default geometry,
\* and neither the close hook's nor the silent updater's write attempt
\* aborts the process: the close ends in a normal exit, the updater goes on
\* to the download.
C13_StoreFailureDegrades ==
    [](phase = "running" => window.exists) /\ [][StoreFailureIsAbsorbed]_vars

\* the store of an earlier build is still as that build left it after the
\* updater's write attempt, a window command and the close hook have run
C13_Witness ==
    /\ phase = "exited"
    /\ closeTask.pc = "done"
    /\ ret.op = "save_window_state_cmd"
    /\ updater.pc = "downloading"
    /\ store = EarlierStore

(***************************************************************************)
(* Properties of the writers of the store running together (Spec)          *)
(***************************************************************************)
\* C15: once the store holds a last_version string, it holds one in every
\* later state, whatever window-state persists, silent update steps,
\* rollback_update calls and settings loads follow.
C15_LastVersionNeverCleared ==
    [][LastVersionIn(store).some => LastVersionIn(store').some]_vars

\* the close hook loaded the defaults (the store did not open), so it holds
\* no last_version, then wrote them over a store that records one
C15_Witness ==
    /\ closeTask.pc = "done"
    /\ closeTask.opened
    /\ closeTask.settings.last_version = None
    /\ LastVersionIn(store) = Some(OlderVersion)
    /\ StoredWs(store) # Some(EarlierWs)

(***************************************************************************)
(* Order of deep-link handling (LinkSpec)                                  *)
(***************************************************************************)
IsNav(c) == c.op = "eval"
Recognized(c) ==
    BeginsWith(c.url, MailtoScheme) \/ BeginsWith(c.url, NuboScheme)

\* a recognized link issued show, set_focus, then its one navigation; any
\* other link issued nothing
IssuedInOrder(c) ==
    IF Recognized(c)
    THEN /\ Len(c.issued) = 3
         /\ c.issued[1] = WinCall("show")
         /\ c.issued[2] = WinCall("set_focus")
         /\ IsNav(c.issued[3])
    ELSE c.issued = <<>>

\* the navigations of the recognized links handled so far, in that order
NavsOfLinks ==
    LET links == SelectSeq(calls, Recognized)
    IN  [k \in 1..Len(links) |-> links[k].issued[3]]

LinksHandledInOrder ==
    /\ \A i \in DOMAIN calls : IssuedInOrder(calls[i])
    /\ (\A i \in DOMAIN calls : IssuedInOrder(calls[i])) =>
          SelectSeq(effects, IsNav) = NavsOfLinks
    /\ \A k \in DOMAIN effects :
          IsNav(effects[k]) =>
              /\ k >= 3
              /\ effects[k - 2] = WinCall("show")
              /\ effects[k - 1] = WinCall("set_focus")

\* one link is handled per step, the oldest one pending; a new link joins
\* the end of those pending; a recognized link leaves the window shown and
\* focused
LinksLeaveInArrivalOrder ==
    /\ Len(calls') > Len(calls) =>
          /\ pending # <<>>
          /\ calls' = Append(calls, calls'[Len(calls')])
          /\ calls'[Len(calls')].url = Head(pending)
          /\ pending' = Tail(pending)
          /\ Recognized(calls'[Len(calls')]) =>
                window'.visible /\ window'.focused
    /\ Len(calls') = Len(calls) =>
          \/ pending' = pending
          \/ \E url \in LinkUris : pending' = Append(pending, url)

\* C16: deep links are handled one at a time in arrival order, without
\* deduplication: the navigations issued are those of the recognized links
\* in the order the links arrived, one per link even for identical links,
\* and each is preceded by show and set_focus on the main window.
C16_DeepLinksInArrivalOrder ==
    []LinksHandledInOrder /\ [][LinksLeaveInArrivalOrder]_vars

\* the same link arrived twice, the second time with the window in the
\* background: two identical navigations, the window in front again
C16_Witness ==
    /\ Len(calls) = 2 /\ pending = <<>>
    /\ calls[1].url = calls[2].url
    /\ Recognized(calls[1])
    /\ ~calls[2].before.focused
    /\ window.focused
    /\ Len(SelectSeq(effects, IsNav)) = 2
    /\ SelectSeq(effects, IsNav)[1] = SelectSeq(effects, IsNav)[2]

(***************************************************************************)
(* Termination of the silent update cycle (UpdateFairSpec)                 *)
(***************************************************************************)
Terminal ==
    updater.pc \in {"no_updater", "no_update", "check_failed", "installed",
                    "install_failed"}

Issued(call) ==
    {k \in DOMAIN updater.source : updater.source[k].call = call}

\* at most one check and one download per cycle, the download only after a
\* check that yielded an update; a failed check or download was the last
\* call of the cycle
CycleCallsAreBounded ==
    /\ Cardinality(Issued("check")) <= 1
    /\ Cardinality(Issued("download_and_install")) <= 1
    /\ \A k \in Issued("download_and_install") :
          /\ k = 2
          /\ updater.source[1] = [call |-> "check", got |-> "update"]
    /\ \A k \in DOMAIN updater.source :
          updater.source[k].got = "error" =>
              /\ k = Len(updater.source)
              /\ updater.pc \in {"check_failed", "install_failed"}
    /\ updater.pc = "no_update" =>
          updater.source = <<[call |-> "check", got |-> "none"]>>
    /\ updater.pc = "installed" =>
          updater.source[Len(updater.source)] =
              [call |-> "download_and_install", got |-> "ok"]

\* C17: every silent update cycle ends in one terminal outcome (no update,
\* check failed, installed, download or install failed) and stays there;
\* within the cycle at most one check and at most one download are issued,
\* the download only after the check yielded an update, and nothing is
\* retried after a failure.
C17_SilentCycleTerminates ==
    /\ (updater.pc = "sleeping") ~> Terminal
    /\ []CycleCallsAreBounded
    /\ [][Terminal => updater' = updater]_vars

\* a cycle that ended in a failed download after one check and one download
C17_Witness ==
    /\ updater.pc = "install_failed"
    /\ Len(updater.source) = 2
    /\ updater.source[2] = [call |-> "download_and_install", got |-> "error"]

(***************************************************************************)
(* Concurrent writers of the store (Spec)                                  *)
(***************************************************************************)
\* the read-modify-write cycles that have loaded and not yet saved
CyclesInProgress ==
    {name \in {"updater", "closeTask", "cmdTask"} :
        CASE name = "updater" -> updater.pc = "loaded"
          [] name = "closeTask" -> closeTask.pc = "loaded"
          [] OTHER -> cmdTask.pc = "loaded"}

\* C18: no two read-modify-write cycles on the store (silent updater, close
\* hook, save_window_state_cmd) are in progress at the same time: no
\* cycle's load or save falls between another cycle's load and save.
C18_NoConcurrentWriters == Cardinality(CyclesInProgress) <= 1

UpdaterHasWritten ==
    /\ updater.pc \in {"saved", "downloading", "installed", "install_failed"}
    /\ updater.opened

\* C19: once the silent updater has written last_version = the running
\* version, no later step of a window-state persist (close hook or
\* save_window_state_cmd) changes last_version in the store, also when the
\* persist loaded the settings before the updater's write and when the
\* store held an older last_version.
C19_LastVersionSurvivesPersists ==
    [][(UpdaterHasWritten /\ LastVersionIn(store) = Some(CurrentVersion))
          => LastVersionIn(store') = Some(CurrentVersion)]_vars

(***************************************************************************)
(* Independence of the silent cycle from update_check_enabled (UpdateSpec) *)
(***************************************************************************)
\* the store with update_check_enabled set to b and nothing else changed
FlagTwin(s, b) == StoreSet(s, "update_check_enabled", JBool(b))

\* the store after the cycle's load_settings .. save_settings on store s
AfterRecording(s, openedLoad, openedSave) ==
    save_settings(s, openedSave, WithCurrentVersion(load_settings(s, openedLoad)))

\* the calls on the update source a cycle at position pc has made
SourceAt(pc) ==
    CASE pc \in {"unspawned", "sleeping", "no_updater"} -> <<>>
      [] pc = "no_update" -> <<[call |-> "check", got |-> "none"]>>
      [] pc = "check_failed" -> <<[call |-> "check", got |-> "error"]>>
      [] pc \in {"available", "loaded", "saved"} ->
            <<[call |-> "check", got |-> "update"]>>
      [] pc = "downloading" ->
            <<[call |-> "check", got |-> "update"],
              [call |-> "download_and_install", got |-> "pending"]>>
      [] pc = "installed" ->
            <<[call |-> "check", got |-> "update"],
              [call |-> "download_and_install", got |-> "ok"]>>
      [] pc = "install_failed" ->
            <<[call |-> "check", got |-> "update"],
              [call |-> "download_and_install", got |-> "error"]>>

\* whatever the store holds, the cycle's next step can be taken with every
\* answer of the update source and every outcome of opening the store
CycleStepsOpenWhateverTheStore ==
    phase = "running" =>
        /\ updater.pc = "sleeping" =>
              \A updaterOk \in BOOLEAN, outcome \in CheckOutcomes :
                  ENABLED U_Check(updaterOk, outcome)
        /\ updater.pc = "available" => \A opened \in BOOLEAN : ENABLED U_Load(opened)
        /\ updater.pc = "loaded" => \A opened \in BOOLEAN : ENABLED U_Save(opened)
        /\ updater.pc = "saved" => ENABLED U_StartDownload
        /\ updater.pc = "downloading" => \A ok \in BOOLEAN : ENABLED U_DownloadDone(ok)

\* C20: the silent cycle does not depend on the stored update_check_enabled.
\* Two runs from stores that differ only in that flag, given the same
\* answers by the update source and the store, make the same calls and the
\* same last_version write, because in every reachable state, whatever the
\* flag: the cycle's next step can be taken; the calls made so far are
\* fixed by the answers received; the write leaves last_version = the
\* running version; and the same write on the store with the flag set
\* either way leaves the same last_version.
C20_SilentCycleIgnoresFlag ==
    /\ CycleStepsOpenWhateverTheStore
    /\ updater.source = SourceAt(updater.pc)
    /\ UpdaterHasWritten => LastVersionIn(store) = Some(CurrentVersion)
    /\ \A b, openedLoad, openedSave \in BOOLEAN :
          LastVersionIn(AfterRecording(FlagTwin(store, b), openedLoad, openedSave))
              = LastVersionIn(AfterRecording(store, openedLoad, openedSave))

\* update checks are switched off in the store, and the cycle has checked,
\* recorded the running version and installed the update
C20_Witness ==
    /\ StoreGet(store, "update_check_enabled") = Some(JBool(FALSE))
    /\ updater.pc = "installed"
    /\ updater.opened
    /\ LastVersionIn(store) = Some(CurrentVersion)

====
